---- MODULE Spec2Model ----
(***************************************************************************)
(* A model of src/markdown.py: the Markdown converter class.               *)
(*                                                                         *)
(* A Python str is modelled as a sequence of one-character strings, so     *)
(* that the regular expressions, str.replace, str.split and the slices of  *)
(* the source are computed character by character.  A text is such a       *)
(* sequence with "\n" characters in it; a line is one without.             *)
(***************************************************************************)
EXTENDS Integers, Sequences, FiniteSets, TLC

VARIABLES
    base_url,       \* self._base_url
    html,           \* self.html (the empty sequence until a convert returns)
    metadata,       \* self.metadata
    lines,          \* self._lines
    extracted,      \* self._extracted, in insertion order
    line_empty,     \* self._line_empty
    in_fence,       \* self._in_fence
    in_paragraph,   \* self._in_paragraph
    in_blockquote,  \* self._in_blockquote
    list_type,      \* self._list_type
    arg,            \* the text the caller passed to convert
    text,           \* the local `text` of convert / _parse
    split,          \* text.split("\n"), the list _parse iterates over
    idx,            \* how many elements of split the for loop has taken
    line,           \* the local `line` of _parse
    pc              \* where the call is

vars == <<base_url, html, metadata, lines, extracted, line_empty, in_fence,
          in_paragraph, in_blockquote, list_type, arg, text, split, idx,
          line, pc>>

(***************************************************************************)
(* Characters and the str methods the source uses.                         *)
(***************************************************************************)

\* What \s matches among the characters of the model.
WhiteSpace == {" ", "\t", "\n", "\r", "\f"}

\* The backquote character (U+0060), which a TLA+ string cannot hold: one
\* symbol of a line like every other character.
Bq == "BQ"

Digit == {"0", "1", "2", "3", "4", "5", "6", "7", "8", "9"}

IsSpace(c) == c \in WhiteSpace

Min(S) == CHOOSE m \in S : \A x \in S : m <= x

Max(S) == CHOOSE m \in S : \A x \in S : m >= x

\* s[:n]
Take(s, n) == SubSeq(s, 1, IF n < Len(s) THEN n ELSE Len(s))

\* s[n:]
Drop(s, n) == SubSeq(s, n + 1, Len(s))

\* s[i-1:].startswith(p), for a 1-based i
OccursAt(s, i, p) ==
    /\ i >= 1
    /\ i + Len(p) - 1 <= Len(s)
    /\ \A k \in 1..Len(p) : s[i + k - 1] = p[k]

StartsWith(s, p) == OccursAt(s, 1, p)

\* s.find(p, from - 1) + 1: the first place at or after `from` where p occurs, or 0
Find(s, p, from) ==
    LET hits == {i \in from..(Len(s) - Len(p) + 1) : OccursAt(s, i, p)}
    IN  IF hits = {} THEN 0 ELSE Min(hits)

\* s.rfind(p) + 1
RFind(s, p) ==
    LET hits == {i \in 1..(Len(s) - Len(p) + 1) : OccursAt(s, i, p)}
    IN  IF hits = {} THEN 0 ELSE Max(hits)

\* Whether p occurs in s
Contains(s, p) == Find(s, p, 1) # 0

\* The first place at or after `from` holding a character of C, or 0
FindChar(s, C, from) ==
    LET hits == {i \in from..Len(s) : s[i] \in C}
    IN  IF hits = {} THEN 0 ELSE Min(hits)

\* The length of the longest run of characters of C that starts at `from`
RunFrom(s, C, from) ==
    LET stop == {i \in from..Len(s) : s[i] \notin C}
    IN  IF stop = {} THEN Len(s) - from + 1 ELSE Min(stop) - from

RECURSIVE ReplaceFrom(_, _, _, _)
\* s[i-1:] with every occurrence of old replaced, found from the left
ReplaceFrom(s, old, new, i) ==
    LET p == Find(s, old, i)
    IN  IF p = 0 THEN SubSeq(s, i, Len(s))
        ELSE SubSeq(s, i, p - 1) \o new \o ReplaceFrom(s, old, new, p + Len(old))

\* s.replace(old, new), every non-overlapping occurrence from the left;
\* the source never passes an empty old.
Replace(s, old, new) == ReplaceFrom(s, old, new, 1)

RECURSIVE SplitN(_, _, _)
\* s.split(sep, n): at most n splits, every one when n is negative
SplitN(s, sep, n) ==
    LET p == Find(s, sep, 1)
    IN  IF n = 0 \/ p = 0 THEN <<s>>
        ELSE <<Take(s, p - 1)>> \o SplitN(Drop(s, p - 1 + Len(sep)), sep, n - 1)

\* s.split(sep)
Split(s, sep) == SplitN(s, sep, -1)

RECURSIVE Join(_, _)
\* sep.join(parts)
Join(parts, sep) ==
    IF Len(parts) = 0 THEN <<>>
    ELSE IF Len(parts) = 1 THEN parts[1]
    ELSE parts[1] \o sep \o Join(Tail(parts), sep)

\* s.strip()
Strip(s) ==
    LET keep == {i \in 1..Len(s) : ~IsSpace(s[i])}
    IN  IF keep = {} THEN <<>> ELSE SubSeq(s, Min(keep), Max(keep))

\* c.lower() for the ASCII letters
LowerChar(c) ==
    CASE c = "A" -> "a" [] c = "B" -> "b" [] c = "C" -> "c" [] c = "D" -> "d"
      [] c = "E" -> "e" [] c = "F" -> "f" [] c = "G" -> "g" [] c = "H" -> "h"
      [] c = "I" -> "i" [] c = "J" -> "j" [] c = "K" -> "k" [] c = "L" -> "l"
      [] c = "M" -> "m" [] c = "N" -> "n" [] c = "O" -> "o" [] c = "P" -> "p"
      [] c = "Q" -> "q" [] c = "R" -> "r" [] c = "S" -> "s" [] c = "T" -> "t"
      [] c = "U" -> "u" [] c = "V" -> "v" [] c = "W" -> "w" [] c = "X" -> "x"
      [] c = "Y" -> "y" [] c = "Z" -> "z" [] OTHER -> c

\* s.lower()
Lower(s) == [i \in 1..Len(s) |-> LowerChar(s[i])]

DigitChar(d) ==
    CASE d = 0 -> "0" [] d = 1 -> "1" [] d = 2 -> "2" [] d = 3 -> "3"
      [] d = 4 -> "4" [] d = 5 -> "5" [] d = 6 -> "6" [] d = 7 -> "7"
      [] d = 8 -> "8" [] d = 9 -> "9"

RECURSIVE FormatInt(_)
\* "{}".format(n) for a natural number n
FormatInt(n) ==
    IF n < 10 THEN <<DigitChar(n)>>
    ELSE FormatInt(n \div 10) \o <<DigitChar(n % 10)>>

\* s.replace("<", "&lt;").replace(">", "&gt;")
EscapeHtml(s) ==
    Replace(Replace(s, <<"<">>, <<"&", "l", "t", ";">>),
            <<">">>, <<"&", "g", "t", ";">>)

(***************************************************************************)
(* int(s) and "{}".format(int(s)): surrounding white space, an optional    *)
(* sign, digits with single underscores between them.                      *)
(***************************************************************************)

IntBody(s) ==
    LET t == Strip(s)
    IN  IF t # <<>> /\ t[1] \in {"+", "-"} THEN Tail(t) ELSE t

\* Whether int(s) returns (it raises ValueError otherwise)
IntOk(s) ==
    LET b == IntBody(s)
    IN  /\ b # <<>>
        /\ b[1] \in Digit
        /\ b[Len(b)] \in Digit
        /\ \A i \in 1..Len(b) : b[i] \in Digit \cup {"_"}
        /\ \A i \in 1..(Len(b) - 1) : ~(b[i] = "_" /\ b[i + 1] = "_")

\* "{}".format(int(s)) when IntOk(s)
IntRepr(s) ==
    LET t      == Strip(s)
        digits == SelectSeq(IntBody(s), LAMBDA c : c \in Digit)
        z      == RunFrom(digits, {"0"}, 1)
        mag    == IF z = Len(digits) THEN <<"0">> ELSE Drop(digits, z)
    IN  IF t[1] = "-" /\ mag # <<"0">> THEN <<"-">> \o mag ELSE mag

(***************************************************************************)
(* The compiled patterns (lines 8-24).  Each operator is pattern.search on *)
(* a line: a record with ok (whether there is a match), g0 (the match) and *)
(* the groups; Python's leftmost match, greedy or lazy as written.  A line *)
(* holds no "\n", so "." matches every character of it.                    *)
(***************************************************************************)

NoMatch == [ok |-> FALSE, g0 |-> <<>>, g1 |-> <<>>, g2 |-> <<>>, g3 |-> <<>>]

Match(m0, m1, m2, m3) == [ok |-> TRUE, g0 |-> m0, g1 |-> m1, g2 |-> m2, g3 |-> m3]

\* ^(c+)\s(.+) : the shape of _re_heading and _re_message
ReRunSpaceRest(s, c) ==
    LET n == RunFrom(s, {c}, 1)
    IN  IF n >= 1 /\ Len(s) >= n + 2 /\ IsSpace(s[n + 1])
        THEN Match(s, Take(s, n), Drop(s, n + 1), <<>>)
        ELSE NoMatch

\* _re_heading = "^(#+)\s(.+)"
re_heading(s) == ReRunSpaceRest(s, "#")

\* _re_message = "^(!+)\s(.+)"
re_message(s) == ReRunSpaceRest(s, "!")

\* _re_media = "^!\[([^\]]+)\]\(([^\)\?]+)\??([^\)]*)\)"
re_media(s) ==
    LET k == FindChar(s, {"]"}, 3)          \* the ] that ends group 1
        e == FindChar(s, {")", "?"}, k + 2) \* what ends group 2
        f == FindChar(s, {")"}, e)          \* the closing )
    IN  IF /\ Len(s) >= 2 /\ s[1] = "!" /\ s[2] = "["
           /\ k >= 4
           /\ Len(s) >= k + 1 /\ s[k + 1] = "("
           /\ e >= k + 3
           /\ f # 0
        THEN Match(Take(s, f), SubSeq(s, 3, k - 1), SubSeq(s, k + 2, e - 1),
                   SubSeq(s, e + 1, f - 1))
        ELSE NoMatch

\* ^([\s]*)<marker>\s(.*) where the marker is one character of C
ReListMarker(s, C) ==
    LET w == RunFrom(s, WhiteSpace, 1)
    IN  IF /\ Len(s) >= w + 2
           /\ s[w + 1] \in C
           /\ IsSpace(s[w + 2])
        THEN Match(s, Take(s, w), Drop(s, w + 2), <<>>)
        ELSE NoMatch

\* _re_list_ul_1 = "^([\s]*)\*\s(.*)"
re_list_ul_1(s) == ReListMarker(s, {"*"})

\* _re_list_ul_2 = "^([\s]*)-\s(.*)"
re_list_ul_2(s) == ReListMarker(s, {"-"})

\* _re_list_ol = "^([\s]*)[0-9]+\.\s(.*)"
re_list_ol(s) ==
    LET w == RunFrom(s, WhiteSpace, 1)
        d == RunFrom(s, Digit, w + 1)
    IN  IF /\ d >= 1
           /\ Len(s) >= w + d + 2
           /\ s[w + d + 1] = "."
           /\ IsSpace(s[w + d + 2])
        THEN Match(s, Take(s, w), Drop(s, w + d + 2), <<>>)
        ELSE NoMatch

\* _re_no_paragraph = "^<(?:h[1-6]|pre|ul|ol|li|img|blockquote|div)"
re_no_paragraph(s) ==
    \/ /\ StartsWith(s, <<"<", "h">>)
       /\ Len(s) >= 3
       /\ s[3] \in {"1", "2", "3", "4", "5", "6"}
    \/ \E t \in {<<"<", "p", "r", "e">>, <<"<", "u", "l">>, <<"<", "o", "l">>,
                 <<"<", "l", "i">>, <<"<", "i", "m", "g">>,
                 <<"<", "b", "l", "o", "c", "k", "q", "u", "o", "t", "e">>,
                 <<"<", "d", "i", "v">>} : StartsWith(s, t)

\* d(.+?)d for a delimiter d: the leftmost d with another d at least one
\* character after it, up to the nearest such d
ReLazySpan(s, d) ==
    LET n      == Len(d)
        starts == {i \in 1..Len(s) : OccursAt(s, i, d) /\ Find(s, d, i + n + 1) # 0}
        i0     == Min(starts)
        j0     == Find(s, d, i0 + n + 1)
    IN  IF starts = {} THEN NoMatch
        ELSE Match(SubSeq(s, i0, j0 + n - 1), SubSeq(s, i0 + n, j0 - 1), <<>>, <<>>)

\* _re_code_1: a backquote, (.+?), a backquote
re_code_1(s) == ReLazySpan(s, <<Bq>>)

\* _re_code_2: two backquotes, (.+?), two backquotes
re_code_2(s) == ReLazySpan(s, <<Bq, Bq>>)

\* _re_link = "\[([^\]]+)\]\(([^\)]+)\)"
re_link(s) ==
    LET Close(i)  == FindChar(s, {"]"}, i + 1)
        Paren(i)  == FindChar(s, {")"}, Close(i) + 2)
        Starts(i) == /\ s[i] = "["
                     /\ Close(i) >= i + 2
                     /\ Len(s) >= Close(i) + 1 /\ s[Close(i) + 1] = "("
                     /\ Paren(i) >= Close(i) + 3
        starts    == {i \in 1..Len(s) : Starts(i)}
        i0        == Min(starts)
    IN  IF starts = {} THEN NoMatch
        ELSE Match(SubSeq(s, i0, Paren(i0)), SubSeq(s, i0 + 1, Close(i0) - 1),
                   SubSeq(s, Close(i0) + 2, Paren(i0) - 1), <<>>)

\* c([^c]+)c
ReSingle(s, c) ==
    LET Next1(i) == FindChar(s, {c}, i + 1)
        starts   == {i \in 1..Len(s) : s[i] = c /\ Next1(i) >= i + 2}
        i0       == Min(starts)
    IN  IF starts = {} THEN NoMatch
        ELSE Match(SubSeq(s, i0, Next1(i0)), SubSeq(s, i0 + 1, Next1(i0) - 1),
                   <<>>, <<>>)

\* cc([^c]+)cc
ReDouble(s, c) ==
    LET Next2(i) == FindChar(s, {c}, i + 2)
        starts   == {i \in 1..Len(s) : /\ OccursAt(s, i, <<c, c>>)
                                       /\ Next2(i) >= i + 3
                                       /\ OccursAt(s, Next2(i), <<c, c>>)}
        i0       == Min(starts)
    IN  IF starts = {} THEN NoMatch
        ELSE Match(SubSeq(s, i0, Next2(i0) + 1), SubSeq(s, i0 + 2, Next2(i0) - 1),
                   <<>>, <<>>)

\* _re_italic = "\*([^\*]+)\*"
re_italic(s) == ReSingle(s, "*")

\* _re_bold = "\*\*([^\*]+)\*\*"
re_bold(s) == ReDouble(s, "*")

\* _re_deleted = "~~([^~]+)~~"
re_deleted(s) == ReDouble(s, "~")

\* _re_external = "^https?://"
re_external(s) ==
    \/ StartsWith(s, <<"h", "t", "t", "p", ":", "/", "/">>)
    \/ StartsWith(s, <<"h", "t", "t", "p", "s", ":", "/", "/">>)

(***************************************************************************)
(* The handlers, as functions of what they read.  A handler that appends   *)
(* to self._lines or sets a flag returns the new values in a record.       *)
(***************************************************************************)

\* _last_line_empty (lines 50-52)
LastLineEmpty(lns) == Len(lns) = 0 \/ Len(lns[Len(lns)]) = 0

\* _list_depth (lines 54-56)
ListDepth(types) == Len(types)

\* _make_tidy (lines 58-73)
MakeTidy(t) ==
    LET unix   == Replace(Replace(t, <<"\r", "\n">>, <<"\n">>), <<"\r">>, <<"\n">>)
        spaces == Replace(unix, <<"\t">>, <<" ", " ", " ", " ">>)
    IN  spaces \o <<"\n", "\n">>

\* _metadata (lines 75-82): whether the text opens a front-matter block,
\* whether the unpacking of the split succeeds, and its three parts
HasFrontMatter(t) == Take(t, 3) = <<"-", "-", "-">>

FrontMatterParts(t) == SplitN(t, <<"-", "-", "-">>, 2)

\* _fence without the escape of line 342
FenceWithoutEscape(ln, empty, fence) ==
    IF ~empty /\ Take(ln, 3) = <<Bq, Bq, Bq>>
    THEN IF ~fence
         THEN [line |-> <<"<", "p", "r", "e", ">", "<", "c", "o", "d", "e", " ",
                          "c", "l", "a", "s", "s", "=", "\"",
                          "l", "a", "n", "g", "u", "a", "g", "e", "-">>
                        \o Strip(Drop(ln, 3)) \o <<"\"", ">">>,
               in_fence |-> TRUE]
         ELSE [line |-> <<"<", "/", "c", "o", "d", "e", ">",
                          "<", "/", "p", "r", "e", ">">>,
               in_fence |-> FALSE]
    ELSE [line |-> ln, in_fence |-> fence]

\* _fence with the language label left untrimmed
FenceWithoutStrip(ln, empty, fence) ==
    IF ~empty /\ Take(ln, 3) = <<Bq, Bq, Bq>>
    THEN IF ~fence
         THEN [line |-> <<"<", "p", "r", "e", ">", "<", "c", "o", "d", "e", " ",
                          "c", "l", "a", "s", "s", "=", "\"",
                          "l", "a", "n", "g", "u", "a", "g", "e", "-">>
                        \o Drop(ln, 3) \o <<"\"", ">">>,
               in_fence |-> TRUE]
         ELSE [line |-> <<"<", "/", "c", "o", "d", "e", ">",
                          "<", "/", "p", "r", "e", ">">>,
               in_fence |-> FALSE]
    ELSE IF ~empty /\ fence
         THEN [line |-> EscapeHtml(ln), in_fence |-> fence]
         ELSE [line |-> ln, in_fence |-> fence]

\* _fence (lines 330-344)
Fence(ln, empty, fence) ==
    IF ~empty /\ Take(ln, 3) = <<Bq, Bq, Bq>>
    THEN IF ~fence
         THEN [line |-> <<"<", "p", "r", "e", ">", "<", "c", "o", "d", "e", " ",
                          "c", "l", "a", "s", "s", "=", "\"",
                          "l", "a", "n", "g", "u", "a", "g", "e", "-">>
                        \o Strip(Drop(ln, 3)) \o <<"\"", ">">>,
               in_fence |-> TRUE]
         ELSE [line |-> <<"<", "/", "c", "o", "d", "e", ">",
                          "<", "/", "p", "r", "e", ">">>,
               in_fence |-> FALSE]
    ELSE IF ~empty /\ fence
         THEN [line |-> EscapeHtml(ln), in_fence |-> fence]
         ELSE [line |-> ln, in_fence |-> fence]

\* A clamp one level too high
HeadingDepthToSeven(n) == IF n < 7 THEN n ELSE 7

\* min(len(m.group(1)), 6) of _heading (line 175)
HeadingDepth(n) == IF n < 6 THEN n ELSE 6

\* _heading (lines 171-178)
Heading(ln) ==
    LET m     == re_heading(ln)
        depth == FormatInt(HeadingDepth(Len(m.g1)))
    IN  IF m.ok
        THEN <<"<", "h">> \o depth \o <<">">> \o m.g2
             \o <<"<", "/", "h">> \o depth \o <<">">>
        ELSE ln

\* The class list of _notices (lines 243-252): the match statement has no
\* default case
NoticeClasses(n) ==
    <<  <<"n", "o", "t", "i", "c", "e", "s">>  >>
    \o (CASE n = 1 -> << <<"y", "e", "l", "l", "o", "w">> >>
          [] n = 2 -> << <<"r", "e", "d">> >>
          [] n = 3 -> << <<"b", "l", "u", "e">> >>
          [] n = 4 -> << <<"g", "r", "e", "e", "n">> >>
          [] OTHER -> <<>>)

\* _notices (lines 240-258)
Notices(ln) ==
    LET m == re_message(ln)
    IN  IF m.ok
        THEN <<"<", "d", "i", "v", " ", "c", "l", "a", "s", "s", "=", "\"">>
             \o Join(NoticeClasses(Len(m.g1)), <<" ">>)
             \o <<"\"", ">">> \o m.g2 \o <<"<", "/", "d", "i", "v", ">">>
        ELSE ln

\* A base-URL rule that prefixes external URLs too
ResolveEveryUrl(url, base) ==
    IF base # <<>> THEN base \o <<"/">> \o url ELSE url

\* The base-URL rule of _media (lines 184-185, 213-214) and _link (310-311)
Resolve(url, base) ==
    IF base # <<>> /\ ~re_external(url) THEN base \o <<"/">> \o url ELSE url

\* os.path.splitext(p)[1] (line 219): from the last dot of the last path
\* component, unless only dots precede it there
SplitExt(p) ==
    LET sepIndex == RFind(p, <<"/">>)
        dotIndex == RFind(p, <<".">>)
    IN  IF /\ dotIndex > sepIndex
           /\ \E k \in (sepIndex + 1)..(dotIndex - 1) : p[k] # "."
        THEN Drop(p, dotIndex - 1)
        ELSE <<>>

sResize == <<"r", "e", "s", "i", "z", "e">>

sAlign == <<"a", "l", "i", "g", "n">>

sAutoplay == <<"a", "u", "t", "o", "p", "l", "a", "y">>

sPreloadPoster == <<"p", "r", "e", "l", "o", "a", "d", "-", "p", "o", "s", "t", "e", "r">>

BooleanAttributes ==
    {sAutoplay, <<"c", "o", "n", "t", "r", "o", "l", "s">>,
     <<"l", "o", "o", "p">>, <<"m", "u", "t", "e", "d">>}

AlignLeftWords == {<<"l">>, <<"L">>, <<"l", "e", "f", "t">>, <<"L", "e", "f", "t">>}

AlignRightWords ==
    {<<"r">>, <<"R">>, <<"r", "i", "g", "h", "t">>, <<"R", "i", "g", "h", "t">>}

HeightAttr(v) == <<"h", "e", "i", "g", "h", "t", "=", "\"">> \o IntRepr(v) \o <<"\"">>

WidthAttr(v) == <<"w", "i", "d", "t", "h", "=", "\"">> \o IntRepr(v) \o <<"\"">>

\* One turn of the attribute loop of _media (lines 190-217) on
\* acc = [attributes, align, raised]; attribute is a.split("=")
MediaAttribute(acc, attribute, base) ==
    LET key == attribute[1]
    IN  IF acc.raised THEN acc
        ELSE IF key = sResize
        THEN IF Len(attribute) < 2 THEN [acc EXCEPT !.raised = TRUE]
             ELSE IF Contains(attribute[2], <<",">>)
             THEN LET wh == Split(attribute[2], <<",">>)
                  IN  IF Len(wh) # 2 \/ ~IntOk(wh[2]) \/ ~IntOk(wh[1])
                      THEN [acc EXCEPT !.raised = TRUE]
                      ELSE [acc EXCEPT !.attributes =
                                @ \o <<HeightAttr(wh[2]), WidthAttr(wh[1])>>]
             ELSE IF ~IntOk(attribute[2]) THEN [acc EXCEPT !.raised = TRUE]
                  ELSE [acc EXCEPT !.attributes = Append(@, HeightAttr(attribute[2]))]
        ELSE IF key = sAlign
        THEN IF Len(attribute) < 2 THEN [acc EXCEPT !.raised = TRUE]
             ELSE IF attribute[2] \in AlignLeftWords
                  THEN [acc EXCEPT !.align = <<"a", "l", "i", "g", "n", "-",
                                               "l", "e", "f", "t">>]
             ELSE IF attribute[2] \in AlignRightWords
                  THEN [acc EXCEPT !.align = <<"a", "l", "i", "g", "n", "-",
                                               "r", "i", "g", "h", "t">>]
             ELSE acc
        ELSE IF key \in BooleanAttributes
        THEN [acc EXCEPT !.attributes = Append(@, key)]
        ELSE IF key = sPreloadPoster
        THEN LET preload == <<"p", "r", "e", "l", "o", "a", "d", "=", "\"",
                              "n", "o", "n", "e", "\"">>
                 poster  == <<"p", "o", "s", "t", "e", "r", "=", "\"">>
                            \o Resolve(attribute[2], base) \o <<"\"">>
             IN  IF Len(attribute) = 2
                 THEN [acc EXCEPT !.attributes = @ \o <<preload, poster>>]
                 ELSE [acc EXCEPT !.attributes = Append(@, preload)]
        ELSE acc

RECURSIVE MediaAttributes(_, _, _)
\* The attribute loop of _media over m.group(3).split("&")
MediaAttributes(acc, items, base) ==
    IF Len(items) = 0 THEN acc
    ELSE MediaAttributes(MediaAttribute(acc, Split(items[1], <<"=">>), base),
                         Tail(items), base)

ImageExtensions ==
    {<<".", "p", "n", "g">>, <<".", "j", "p", "g">>, <<".", "g", "i", "f">>,
     <<".", "j", "p", "e", "g">>}

VideoExtensions == {<<".", "m", "p", "4">>, <<".", "m", "4", "v">>}

\* _media (lines 180-238): [raised, line]; raised when int(), the unpacking
\* of "w,h" or attribute[1] raises
Media(ln, base) ==
    LET m     == re_media(ln)
        src   == Resolve(m.g2, base)
        start == [attributes |-> <<>>,
                  align |-> <<"a", "l", "i", "g", "n", "-", "c", "e", "n", "t", "e", "r">>,
                  raised |-> FALSE]
        acc   == IF m.g3 # <<>>
                 THEN MediaAttributes(start, Split(m.g3, <<"&">>), base)
                 ELSE start
        ext   == Lower(SplitExt(src))
        figure == <<"<", "f", "i", "g", "u", "r", "e", " ",
                    "c", "l", "a", "s", "s", "=", "\"">> \o acc.align
        img   == LET attributes ==
                         Append(acc.attributes,
                                <<"l", "o", "a", "d", "i", "n", "g", "=", "\"",
                                  "l", "a", "z", "y", "\"">>)
                 IN  figure \o <<"\"", ">", "<", "i", "m", "g", " ", "s", "r", "c", "=", "\"">>
                     \o src \o <<"\"", " ", "a", "l", "t", "=", "\"">> \o m.g1
                     \o <<"\"", " ">> \o Join(attributes, <<" ">>)
                     \o <<">", "<", "/", "f", "i", "g", "u", "r", "e", ">">>
        video == LET attributes ==
                         IF \E i \in 1..Len(acc.attributes) :
                                acc.attributes[i] = sAutoplay
                         THEN Append(acc.attributes,
                                     <<"p", "l", "a", "y", "s", "i", "n", "l", "i", "n", "e">>)
                         ELSE acc.attributes
                 IN  figure \o <<"\"", ">", "<", "v", "i", "d", "e", "o", " ">>
                     \o Join(attributes, <<" ">>)
                     \o <<">", "<", "s", "o", "u", "r", "c", "e", " ",
                          "s", "r", "c", "=", "\"">> \o src
                     \o <<"\"", " ", "a", "l", "t", "=", "\"">> \o m.g1
                     \o <<"\"", " ", "t", "y", "p", "e", "=", "\"",
                          "v", "i", "d", "e", "o", "/">> \o Tail(ext)
                     \o <<"\"", ">", "<", "/", "v", "i", "d", "e", "o", ">",
                          "<", "/", "f", "i", "g", "u", "r", "e", ">">>
    IN  IF ~m.ok THEN [raised |-> FALSE, line |-> ln]
        ELSE IF acc.raised THEN [raised |-> TRUE, line |-> ln]
        ELSE IF ext \in ImageExtensions THEN [raised |-> FALSE, line |-> img]
        ELSE IF ext \in VideoExtensions THEN [raised |-> FALSE, line |-> video]
        ELSE [raised |-> FALSE, line |-> ln]

\* _is_more (lines 113-116)
IsMore(ln) ==
    IF Lower(ln) \in {<<"=", "=", "=">>,
                      <<"<", "!", "-", "-", " ", "m", "o", "r", "e", " ",
                        "-", "-", "!", ">">>}
    THEN <<>>
    ELSE ln

\* self._extracted[key] = value on a dict kept in insertion order
DictSet(d, key, value) ==
    IF \E i \in 1..Len(d) : d[i].key = key
    THEN [i \in 1..Len(d) |-> IF d[i].key = key
                              THEN [key |-> key, value |-> value] ELSE d[i]]
    ELSE Append(d, [key |-> key, value |-> value])

\* "###<EXTRACTED-{id}>###".format(id = n) (lines 269-271)
ExKey(n) ==
    <<"#", "#", "#", "<", "E", "X", "T", "R", "A", "C", "T", "E", "D", "-">>
    \o FormatInt(n) \o <<">", "#", "#", "#">>

\* "<code>{content}</code>" with < and > escaped (lines 266-268)
ExValue(content) ==
    <<"<", "c", "o", "d", "e", ">">> \o EscapeHtml(content)
    \o <<"<", "/", "c", "o", "d", "e", ">">>

RECURSIVE ExtractWith(_, _, _)
\* The inner loop of _extract_code (lines 264-275) for one pattern: the
\* double-backquote pattern when two, the single-backquote one otherwise
ExtractWith(two, ln, ex) ==
    LET m == IF two THEN re_code_2(ln) ELSE re_code_1(ln)
    IN  IF ~m.ok THEN [line |-> ln, extracted |-> ex]
        ELSE ExtractWith(two, Replace(ln, m.g0, ExKey(Len(ex))),
                         DictSet(ex, ExKey(Len(ex)), ExValue(m.g1)))

\* _extract_code (lines 260-277): re_code[-1] is _re_code_2, then _re_code_1
ExtractCode(ln, ex) ==
    LET first == ExtractWith(TRUE, ln, ex)
    IN  ExtractWith(FALSE, first.line, first.extracted)

RECURSIVE InsertFrom(_, _, _)
InsertFrom(ln, ex, i) ==
    IF i > Len(ex) THEN ln
    ELSE InsertFrom(Replace(ln, ex[i].key, ex[i].value), ex, i + 1)

\* _insert_code (lines 279-284), the line it returns
InsertCode(ln, ex) == InsertFrom(ln, ex, 1)

\* A _bold that substitutes the first match only
BoldOnce(ln) ==
    LET m == re_bold(ln)
    IN  IF ~m.ok THEN ln
        ELSE Replace(ln, m.g0, <<"<", "e", "m", ">">> \o m.g1
                               \o <<"<", "/", "e", "m", ">">>)

RECURSIVE Bold(_)
\* _bold (lines 286-294)
Bold(ln) ==
    LET m == re_bold(ln)
    IN  IF ~m.ok THEN ln
        ELSE Bold(Replace(ln, m.g0, <<"<", "e", "m", ">">> \o m.g1
                                    \o <<"<", "/", "e", "m", ">">>))

RECURSIVE Italic(_)
\* _italic (lines 296-304)
Italic(ln) ==
    LET m == re_italic(ln)
    IN  IF ~m.ok THEN ln
        ELSE Italic(Replace(ln, m.g0, <<"<", "i", ">">> \o m.g1
                                      \o <<"<", "/", "i", ">">>))

RECURSIVE Deleted(_)
\* _deleted (lines 320-328)
Deleted(ln) ==
    LET m == re_deleted(ln)
    IN  IF ~m.ok THEN ln
        ELSE Deleted(Replace(ln, m.g0, <<"<", "d", "e", "l", ">">> \o m.g1
                                       \o <<"<", "/", "d", "e", "l", ">">>))

RECURSIVE Link(_, _)
\* _link (lines 306-318)
Link(ln, base) ==
    LET m == re_link(ln)
    IN  IF ~m.ok THEN ln
        ELSE Link(Replace(ln, m.g0,
                          <<"<", "a", " ", "h", "r", "e", "f", "=", "\"">>
                          \o Resolve(m.g2, base) \o <<"\"", ">">> \o m.g1
                          \o <<"<", "/", "a", ">">>),
                  base)

sBlockquoteOpen == <<"<", "b", "l", "o", "c", "k", "q", "u", "o", "t", "e", ">">>

sBlockquoteClose == <<"<", "/", "b", "l", "o", "c", "k", "q", "u", "o", "t", "e", ">">>

\* A _blockquote that appends the open tag for every quoted line
BlockquoteOpensAgain(ln, empty, lns, inbq) ==
    LET quoted == ~empty /\ Take(ln, 2) = <<">", " ">>
        lns1   == IF quoted THEN Append(lns, sBlockquoteOpen) ELSE lns
        inbq1  == IF quoted THEN TRUE ELSE inbq
        closes == empty /\ inbq1
    IN  [line          |-> IF quoted THEN Drop(ln, 2) ELSE ln,
         lines         |-> IF closes THEN Append(lns1, sBlockquoteClose) ELSE lns1,
         in_blockquote |-> IF closes THEN FALSE ELSE inbq1]

\* _blockquote (lines 118-129)
Blockquote(ln, empty, lns, inbq) ==
    LET quoted == ~empty /\ Take(ln, 2) = <<">", " ">>
        lns1   == IF quoted /\ ~inbq THEN Append(lns, sBlockquoteOpen) ELSE lns
        inbq1  == IF quoted THEN TRUE ELSE inbq
        closes == empty /\ inbq1
    IN  [line          |-> IF quoted THEN Drop(ln, 2) ELSE ln,
         lines         |-> IF closes THEN Append(lns1, sBlockquoteClose) ELSE lns1,
         in_blockquote |-> IF closes THEN FALSE ELSE inbq1]

\* "<{}>".format(tag) and "</{}>".format(tag)
OpenTag(tag) == <<"<">> \o tag \o <<">">>

CloseTag(tag) == <<"<", "/">> \o tag \o <<">">>

sUl == <<"u", "l">>

sOl == <<"o", "l">>

\* The pop of lines 150-152 with `if` for `while`: one level at most
PopOnce(lns, types, depth) ==
    IF depth < ListDepth(types)
    THEN [lines |-> Append(lns, CloseTag(types[Len(types)])),
          list_type |-> SubSeq(types, 1, Len(types) - 1)]
    ELSE [lines |-> lns, list_type |-> types]

RECURSIVE PopTo(_, _, _)
\* while depth < self._list_depth: append the close tag of list_type.pop()
\* (lines 151-152 and, with depth 0, lines 155-156): [lines, list_type]
PopTo(lns, types, depth) ==
    IF depth < ListDepth(types)
    THEN PopTo(Append(lns, CloseTag(types[Len(types)])),
               SubSeq(types, 1, Len(types) - 1), depth)
    ELSE [lines |-> lns, list_type |-> types]

\* len(m.group(1)) // 4 + 1 (lines 142, 150)
TargetDepth(m) == Len(m.g1) \div 4 + 1

\* A turn of the loop of _list without lines 154-156: a blank line closes
\* nothing
ListTurnWithoutBlankClose(st, m, tag, empty) ==
    LET pushes == m.ok /\ (Len(m.g1) \div 4 + 1) > ListDepth(st.list_type)
        types1 == IF pushes THEN Append(st.list_type, tag) ELSE st.list_type
        lns1   == IF pushes THEN Append(st.lines, OpenTag(types1[Len(types1)]))
                  ELSE st.lines
        ln1    == IF m.ok
                  THEN Replace(st.line, m.g0,
                               <<"<", "l", "i", ">">> \o m.g2
                               \o <<"<", "/", "l", "i", ">">>)
                  ELSE st.line
        popped == IF m.ok THEN PopTo(lns1, types1, Len(m.g1) \div 4 + 1)
                  ELSE [lines |-> lns1, list_type |-> types1]
    IN  [line |-> ln1, lines |-> popped.lines, list_type |-> popped.list_type]

\* A turn of the loop of _list with "<ul>" for the tag appended at line 144,
\* whatever type was pushed
ListTurnOpeningUl(st, m, tag, empty) ==
    LET pushes == m.ok /\ TargetDepth(m) > ListDepth(st.list_type)
        types1 == IF pushes THEN Append(st.list_type, tag) ELSE st.list_type
        lns1   == IF pushes THEN Append(st.lines, OpenTag(sUl)) ELSE st.lines
        ln1    == IF m.ok
                  THEN Replace(st.line, m.g0,
                               <<"<", "l", "i", ">">> \o m.g2
                               \o <<"<", "/", "l", "i", ">">>)
                  ELSE st.line
        popped == IF m.ok THEN PopTo(lns1, types1, TargetDepth(m))
                  ELSE [lines |-> lns1, list_type |-> types1]
        closed == IF empty THEN PopTo(popped.lines, popped.list_type, 0) ELSE popped
    IN  [line |-> ln1, lines |-> closed.lines, list_type |-> closed.list_type]

\* One turn of the loop of _list (lines 138-156), for the pattern popped
\* from re_list and its tag, on st = [line, lines, list_type]
ListTurn(st, m, tag, empty) ==
    LET pushes == m.ok /\ TargetDepth(m) > ListDepth(st.list_type)
        types1 == IF pushes THEN Append(st.list_type, tag) ELSE st.list_type
        lns1   == IF pushes THEN Append(st.lines, OpenTag(types1[Len(types1)]))
                  ELSE st.lines
        ln1    == IF m.ok
                  THEN Replace(st.line, m.g0,
                               <<"<", "l", "i", ">">> \o m.g2
                               \o <<"<", "/", "l", "i", ">">>)
                  ELSE st.line
        popped == IF m.ok THEN PopTo(lns1, types1, TargetDepth(m))
                  ELSE [lines |-> lns1, list_type |-> types1]
        closed == IF empty THEN PopTo(popped.lines, popped.list_type, 0) ELSE popped
    IN  [line |-> ln1, lines |-> closed.lines, list_type |-> closed.list_type]

\* _list (lines 131-158): re_list.pop() yields _re_list_ul_2, _re_list_ul_1
\* and _re_list_ol, with the tags ul, ul and ol
List(ln, empty, lns, types) ==
    LET st0 == [line |-> ln, lines |-> lns, list_type |-> types]
        st1 == ListTurn(st0, re_list_ul_2(st0.line), sUl, empty)
        st2 == ListTurn(st1, re_list_ul_1(st1.line), sUl, empty)
    IN  ListTurn(st2, re_list_ol(st2.line), sOl, empty)

sPOpen == <<"<", "p", ">">>

sPClose == <<"<", "/", "p", ">">>

\* _paragraph (lines 160-169): [lines, in_paragraph]
Paragraph(ln, empty, lns, inpar) ==
    LET opens  == LastLineEmpty(lns) /\ ~empty /\ ~re_no_paragraph(ln)
        lns1   == IF opens THEN Append(lns, sPOpen) ELSE lns
        inpar1 == IF opens THEN TRUE ELSE inpar
        closes == empty /\ ~LastLineEmpty(lns1) /\ inpar1
    IN  [lines        |-> IF closes THEN Append(lns1, sPClose) ELSE lns1,
         in_paragraph |-> IF closes THEN FALSE ELSE inpar1]

(***************************************************************************)
(* The state machine: one action per method call of convert and _parse.    *)
(* pc is "idle" on a new instance, "returned" or "raised" after a call,    *)
(* and names the next statement in between.                                *)
(***************************************************************************)

NoMetadata == [decoded |-> FALSE, source |-> <<>>]

\* __init__ (lines 27-28).  The attributes of the parse state do not exist
\* before the first _reset; they are shown with the values _reset gives
\* them, which nothing reads before that _reset.
InitWith(bases) ==
    /\ base_url \in bases
    /\ html = <<>>
    /\ metadata = NoMetadata
    /\ lines = <<>>
    /\ extracted = <<>>
    /\ line_empty = FALSE
    /\ in_fence = FALSE
    /\ in_paragraph = FALSE
    /\ in_blockquote = FALSE
    /\ list_type = <<>>
    /\ arg = <<>>
    /\ text = <<>>
    /\ split = <<>>
    /\ idx = 0
    /\ line = <<>>
    /\ pc = "idle"

parse_state == <<lines, extracted, line_empty, in_fence, in_paragraph,
                 in_blockquote, list_type>>

locals == <<text, split, idx, line>>

\* The locals of a call that has ended
EndOfCall ==
    /\ text' = <<>>
    /\ split' = <<>>
    /\ idx' = 0
    /\ line' = <<>>

\* A call convert(t) (line 30)
Convert(t) ==
    /\ arg' = t
    /\ text' = t
    /\ pc' = "reset"
    /\ UNCHANGED <<base_url, html, metadata, parse_state, split, idx, line>>

\* A _reset that forgets the fence flag
ResetKeepingFence ==
    /\ pc = "reset"
    /\ lines' = <<>>
    /\ extracted' = <<>>
    /\ line_empty' = FALSE
    /\ in_paragraph' = FALSE
    /\ in_blockquote' = FALSE
    /\ list_type' = <<>>
    /\ pc' = "make_tidy"
    /\ UNCHANGED <<base_url, html, metadata, arg, locals, in_fence>>

\* _reset (lines 41-48)
Reset ==
    /\ pc = "reset"
    /\ lines' = <<>>
    /\ extracted' = <<>>
    /\ line_empty' = FALSE
    /\ in_fence' = FALSE
    /\ in_paragraph' = FALSE
    /\ in_blockquote' = FALSE
    /\ list_type' = <<>>
    /\ pc' = "make_tidy"
    /\ UNCHANGED <<base_url, html, metadata, arg, locals>>

\* text = self._make_tidy(text) (line 33)
MakeTidyStep ==
    /\ pc = "make_tidy"
    /\ text' = MakeTidy(text)
    /\ pc' = "metadata"
    /\ UNCHANGED <<base_url, html, metadata, parse_state, arg, split, idx, line>>

\* text = self._metadata(text) (line 35).  The unpacking of the split
\* raises ValueError when there is no second delimiter; yaml.safe_load is
\* not code of this repository: it returns or raises.
MetadataStep ==
    /\ pc = "metadata"
    /\ \E loads \in BOOLEAN :
        LET parts == FrontMatterParts(text)
        IN  IF ~HasFrontMatter(text)
            THEN /\ metadata' = NoMetadata
                 /\ pc' = "parse"
                 /\ UNCHANGED locals
            ELSE IF Len(parts) = 3 /\ loads
            THEN /\ metadata' = [decoded |-> TRUE, source |-> parts[2]]
                 /\ text' = parts[3]
                 /\ pc' = "parse"
                 /\ UNCHANGED <<split, idx, line>>
            ELSE /\ pc' = "raised"
                 /\ EndOfCall
                 /\ UNCHANGED metadata
    /\ UNCHANGED <<base_url, html, parse_state, arg>>

\* for line in text.split("\n") (line 86): the list is built
ParseStep ==
    /\ pc = "parse"
    /\ split' = Split(text, <<"\n">>)
    /\ idx' = 0
    /\ pc' = "loop"
    /\ UNCHANGED <<base_url, html, metadata, parse_state, arg, text, line>>

\* The loop takes its next line and sets _line_empty (lines 86-88)
ForLine ==
    /\ pc = "loop"
    /\ idx < Len(split)
    /\ idx' = idx + 1
    /\ line' = split[idx + 1]
    /\ line_empty' = (Len(split[idx + 1]) = 0)
    /\ pc' = "fence"
    /\ UNCHANGED <<base_url, html, metadata, lines, extracted, in_fence,
                   in_paragraph, in_blockquote, list_type, arg, text, split>>

\* The loop is over: return "\n".join(self._lines), self.html = text
\* (lines 111, 39)
ParseReturn ==
    /\ pc = "loop"
    /\ idx = Len(split)
    /\ html' = Join(lines, <<"\n">>)
    /\ EndOfCall
    /\ pc' = "returned"
    /\ UNCHANGED <<base_url, metadata, parse_state, arg>>

\* line = self._fence(line); if not self._in_fence (lines 90-92)
FenceStep ==
    /\ pc = "fence"
    /\ LET r == Fence(line, line_empty, in_fence)
       IN  /\ line' = r.line
           /\ in_fence' = r.in_fence
           /\ pc' = IF r.in_fence THEN "append" ELSE "heading"
    /\ UNCHANGED <<base_url, html, metadata, lines, extracted, line_empty,
                   in_paragraph, in_blockquote, list_type, arg, text, split, idx>>

\* A handler that only rewrites the line
Rewrites(at, new, then) ==
    /\ pc = at
    /\ line' = new
    /\ pc' = then
    /\ UNCHANGED <<base_url, html, metadata, parse_state, arg, text, split, idx>>

\* line = self._heading(line) (line 93)
HeadingStep == Rewrites("heading", Heading(line), "notices")

\* line = self._notices(line) (line 94)
NoticesStep == Rewrites("notices", Notices(line), "media")

\* line = self._media(line) (line 95); an exception ends the call
MediaStep ==
    /\ pc = "media"
    /\ LET r == Media(line, base_url)
       IN  IF r.raised
           THEN /\ pc' = "raised"
                /\ EndOfCall
           ELSE /\ line' = r.line
                /\ pc' = "is_more"
                /\ UNCHANGED <<text, split, idx>>
    /\ UNCHANGED <<base_url, html, metadata, parse_state, arg>>

\* line = self._is_more(line) (line 97)
IsMoreStep == Rewrites("is_more", IsMore(line), "extract_code")

\* line = self._extract_code(line) (line 98)
ExtractCodeStep ==
    /\ pc = "extract_code"
    /\ LET r == ExtractCode(line, extracted)
       IN  /\ line' = r.line
           /\ extracted' = r.extracted
    /\ pc' = "bold"
    /\ UNCHANGED <<base_url, html, metadata, lines, line_empty, in_fence,
                   in_paragraph, in_blockquote, list_type, arg, text, split, idx>>

\* line = self._bold(line) (line 99)
BoldStep == Rewrites("bold", Bold(line), "italic")

\* line = self._italic(line) (line 100)
ItalicStep == Rewrites("italic", Italic(line), "deleted")

\* line = self._deleted(line) (line 101)
DeletedStep == Rewrites("deleted", Deleted(line), "link")

\* line = self._link(line) (line 102)
LinkStep == Rewrites("link", Link(line, base_url), "insert_code")

\* line = self._insert_code(line) (line 103)
InsertCodeStep ==
    /\ pc = "insert_code"
    /\ line' = InsertCode(line, extracted)
    /\ extracted' = <<>>
    /\ pc' = "blockquote"
    /\ UNCHANGED <<base_url, html, metadata, lines, line_empty, in_fence,
                   in_paragraph, in_blockquote, list_type, arg, text, split, idx>>

\* line = self._blockquote(line) (line 105)
BlockquoteStep ==
    /\ pc = "blockquote"
    /\ LET r == Blockquote(line, line_empty, lines, in_blockquote)
       IN  /\ line' = r.line
           /\ lines' = r.lines
           /\ in_blockquote' = r.in_blockquote
    /\ pc' = "list"
    /\ UNCHANGED <<base_url, html, metadata, extracted, line_empty, in_fence,
                   in_paragraph, list_type, arg, text, split, idx>>

\* line = self._list(line) (line 106)
ListStep ==
    /\ pc = "list"
    /\ LET r == List(line, line_empty, lines, list_type)
       IN  /\ line' = r.line
           /\ lines' = r.lines
           /\ list_type' = r.list_type
    /\ pc' = "paragraph"
    /\ UNCHANGED <<base_url, html, metadata, extracted, line_empty, in_fence,
                   in_paragraph, in_blockquote, arg, text, split, idx>>

\* line = self._paragraph(line) (line 107)
ParagraphStep ==
    /\ pc = "paragraph"
    /\ LET r == Paragraph(line, line_empty, lines, in_paragraph)
       IN  /\ lines' = r.lines
           /\ in_paragraph' = r.in_paragraph
    /\ pc' = "append"
    /\ UNCHANGED <<base_url, html, metadata, extracted, line_empty, in_fence,
                   in_blockquote, list_type, arg, text, split, idx, line>>

\* self._lines.append(line) (line 109)
AppendStep ==
    /\ pc = "append"
    /\ lines' = Append(lines, line)
    /\ pc' = "loop"
    /\ UNCHANGED <<base_url, html, metadata, extracted, line_empty, in_fence,
                   in_paragraph, in_blockquote, list_type, arg, text, split,
                   idx, line>>

\* Every step of a call once it has begun
Steps ==
    \/ Reset
    \/ MakeTidyStep
    \/ MetadataStep
    \/ ParseStep
    \/ ForLine
    \/ ParseReturn
    \/ FenceStep
    \/ HeadingStep
    \/ NoticesStep
    \/ MediaStep
    \/ IsMoreStep
    \/ ExtractCodeStep
    \/ BoldStep
    \/ ItalicStep
    \/ DeletedStep
    \/ LinkStep
    \/ InsertCodeStep
    \/ BlockquoteStep
    \/ ListStep
    \/ ParagraphStep
    \/ AppendStep

(***************************************************************************)
(* convert as a function: what a call on a newly built instance computes.  *)
(***************************************************************************)

\* The parse state _reset leaves (lines 41-48)
FreshState ==
    [lines |-> <<>>, extracted |-> <<>>, in_fence |-> FALSE,
     in_paragraph |-> FALSE, in_blockquote |-> FALSE, list_type |-> <<>>,
     raised |-> FALSE]

\* The body of the loop of _parse (lines 88-109) on one line
ParseLine(st, raw, base) ==
    LET empty == Len(raw) = 0
        f  == Fence(raw, empty, st.in_fence)
        md == Media(Notices(Heading(f.line)), base)
        ex == ExtractCode(IsMore(md.line), st.extracted)
        ic == InsertCode(Link(Deleted(Italic(Bold(ex.line))), base), ex.extracted)
        bq == Blockquote(ic, empty, st.lines, st.in_blockquote)
        li == List(bq.line, empty, bq.lines, st.list_type)
        pa == Paragraph(li.line, empty, li.lines, st.in_paragraph)
    IN  IF f.in_fence
        THEN [st EXCEPT !.lines = Append(@, f.line), !.in_fence = TRUE]
        ELSE IF md.raised
        THEN [st EXCEPT !.in_fence = FALSE, !.raised = TRUE]
        ELSE [lines |-> Append(pa.lines, li.line), extracted |-> <<>>,
              in_fence |-> FALSE, in_paragraph |-> pa.in_paragraph,
              in_blockquote |-> bq.in_blockquote, list_type |-> li.list_type,
              raised |-> FALSE]

RECURSIVE ParseFrom(_, _, _, _)
\* The loop of _parse (lines 86-109) from element i of the split text
ParseFrom(st, parts, i, base) ==
    IF i > Len(parts) \/ st.raised THEN st
    ELSE ParseFrom(ParseLine(st, parts[i], base), parts, i + 1, base)

\* The body text _metadata hands to _parse (lines 33-35), when it returns
BodyOf(t) ==
    LET tidy == MakeTidy(t)
    IN  IF HasFrontMatter(tidy) THEN FrontMatterParts(tidy)[3] ELSE tidy

\* Whether _metadata raises whatever yaml.safe_load does
MetadataRaises(t) ==
    HasFrontMatter(MakeTidy(t)) /\ Len(FrontMatterParts(MakeTidy(t))) # 3

\* The parse state at the end of convert(t) on a new instance
FreshParse(t, base) == ParseFrom(FreshState, Split(BodyOf(t), <<"\n">>), 1, base)

\* self.html after convert(t) returns on a new instance
FreshHtml(t, base) == Join(FreshParse(t, base).lines, <<"\n">>)

(***************************************************************************)
(* The callers.  A text is made of lines of a corpus joined by "\n"; each  *)
(* specification offers convert the texts of one corpus.                   *)
(***************************************************************************)

\* Every sequence of at most n lines of the corpus, as one text
TextsOf(corpus, n) ==
    {Join(ls, <<"\n">>) : ls \in UNION {[1..k -> corpus] : k \in 0..n}}

\* The first call on a new instance
FirstCall(texts) == \E t \in texts : pc = "idle" /\ Convert(t)

\* A call on an instance whatever its earlier calls were
AnyCall(texts) ==
    \E t \in texts : pc \in {"idle", "returned", "raised"} /\ Convert(t)

\* Block structure: a paragraph line, a list item, a nested ordered item, a
\* quoted line, a fence delimiter, a cut marker and a blank line
MaxLines == 3

BlockCorpus ==
    {<<"a">>, <<"*", " ", "a">>, <<" ", " ", " ", " ", "1", ".", " ", "b">>,
     <<">", " ", "q">>, <<Bq, Bq, Bq>>, <<"=", "=", "=">>, <<>>}

CallBlocks == FirstCall(TextsOf(BlockCorpus, MaxLines))

Init == InitWith({<<>>})

Next == CallBlocks \/ Steps

Spec == Init /\ [][Next]_vars

\* Fenced blocks: a fence delimiter and lines that look like a heading, a
\* notice, a media line, a list item, inline markup, a quoted line with
\* HTML metacharacters, and a blank line
MaxFenceLines == 3

FenceCorpus ==
    {<<Bq, Bq, Bq>>, <<"#", " ", "h">>, <<"!", " ", "n">>,
     <<"!", "[", "a", "]", "(", "u", ".", "p", "n", "g", ")">>,
     <<"*", " ", "a">>, <<"*", "i", "*", " ", Bq, "c", Bq>>,
     <<">", " ", "<", "q", ">">>, <<>>}

CallFences == FirstCall(TextsOf(FenceCorpus, MaxFenceLines))

NextFence == CallFences \/ Steps

SpecFence == Init /\ [][NextFence]_vars

\* Lists: unordered and ordered markers at three depths and a plain line
MaxListLines == 4

ListCorpus ==
    {<<"*", " ", "a">>, <<" ", " ", " ", " ", "1", ".", " ", "b">>,
     <<" ", " ", " ", " ", " ", " ", " ", " ", "-", " ", "c">>, <<"a">>}

CallLists == FirstCall(TextsOf(ListCorpus, MaxListLines))

NextList == CallLists \/ Steps

SpecList == Init /\ [][NextList]_vars

\* Inline markup: lines made of at most MaxPieces pieces, among them a lone
\* backquote and a double-backquote span, so that code spans hold markup,
\* repeat, and sit inside each other
MaxPieces == 4

InlinePieces ==
    {<<Bq>>, <<Bq, Bq, "a", Bq, Bq>>, <<"a">>, <<"*", "a", "*">>,
     <<"[", "a", "]", "(", "u", ")">>}

\* Every line made of at most n of the pieces, as a one-line text
LinesOf(pieces, n) ==
    {Join(ps, <<>>) : ps \in UNION {[1..k -> pieces] : k \in 0..n}}

CallInline == FirstCall(LinesOf(InlinePieces, MaxPieces))

NextInline == CallInline \/ Steps

SpecInline == Init /\ [][NextInline]_vars

\* Repeated calls on one instance: texts of at most MaxRepeatLines lines
\* among a fence delimiter (left unterminated), a quoted list item, a
\* front-matter delimiter (alone it makes _metadata raise) and a media line
\* whose resize value makes _media raise in the middle of the parse
MaxRepeatLines == 2

RepeatCorpus ==
    {<<Bq, Bq, Bq>>, <<">", " ", "*", " ", "a">>, <<"-", "-", "-">>,
     <<"!", "[", "a", "]", "(", "u", "?", "r", "e", "s", "i", "z", "e", "=",
       "x", ")">>}

CallAgain == AnyCall(TextsOf(RepeatCorpus, MaxRepeatLines))

NextRepeat == CallAgain \/ Steps

SpecRepeat == Init /\ [][NextRepeat]_vars

\* URLs: a relative one, the two external schemes, and two that only look
\* external; on a line of at most MaxLinks links, or as the source of an
\* image, of a video, or as the poster of a video; on an instance without
\* and with a base URL
MaxLinks == 2

Urls ==
    {<<"u">>, <<"h", "t", "t", "p", ":", "/", "/", "x">>,
     <<"h", "t", "t", "p", "s", ":", "/", "/", "x">>, <<"/", "/", "x">>,
     <<"h", "t", "t", "p", ":", "/", "x">>}

LinkOf(u) == <<"[", "a", "]", "(">> \o u \o <<")">>

ImageOf(u) == <<"!", "[", "a", "]", "(">> \o u \o <<".", "p", "n", "g", ")">>

VideoOf(u) == <<"!", "[", "a", "]", "(">> \o u \o <<".", "m", "p", "4", ")">>

PosterOf(u) ==
    <<"!", "[", "a", "]", "(", "v", ".", "m", "p", "4", "?", "p", "r", "e", "l", "o", "a", "d", "-", "p", "o", "s", "t", "e", "r", "=">>
    \o u \o <<")">>

\* The line of the links to the URLs us, one after the other
LinksOf(us) == Join([i \in 1..Len(us) |-> LinkOf(us[i])], <<>>)

UrlTexts ==
    {LinksOf(us) : us \in UNION {[1..k -> Urls] : k \in 1..MaxLinks}}
    \cup UNION {{ImageOf(u), VideoOf(u), PosterOf(u)} : u \in Urls}

CallUrls == FirstCall(UrlTexts)

InitUrl == InitWith({<<>>, <<"b">>})

NextUrl == CallUrls \/ Steps

SpecUrl == InitUrl /\ [][NextUrl]_vars

\* Headings: a run of 1 to MaxHashes hashes, a space and a title, in texts
\* of at most MaxHeadingLines lines that also hold a plain line and a fence
\* delimiter
MaxHashes == 7

MaxHeadingLines == 2

HeadingOf(n) == [i \in 1..n |-> "#"] \o <<" ", "T">>

HeadingCorpus == {HeadingOf(n) : n \in 1..MaxHashes} \cup {<<"a">>, <<Bq, Bq, Bq>>}

CallHeadings == FirstCall(TextsOf(HeadingCorpus, MaxHeadingLines))

NextHeading == CallHeadings \/ Steps

SpecHeading == Init /\ [][NextHeading]_vars

\* Notices: a run of 1 to MaxBangs exclamation marks, a space and a message,
\* in texts of at most MaxNoticeLines lines that also hold a plain line and
\* a fence delimiter
MaxBangs == 5

MaxNoticeLines == 2

NoticeOf(n) == [i \in 1..n |-> "!"] \o <<" ", "w">>

NoticeCorpus == {NoticeOf(n) : n \in 1..MaxBangs} \cup {<<"a">>, <<Bq, Bq, Bq>>}

CallNotices == FirstCall(TextsOf(NoticeCorpus, MaxNoticeLines))

NextNotice == CallNotices \/ Steps

SpecNotice == Init /\ [][NextNotice]_vars

\* Emphasis: lines made of at most MaxMarks pieces, each a bold, italic or
\* deleted span or a link, two of the bold spans and of the links differing
\* so that a handler substitutes more than once; on an instance without and
\* with a base URL
MaxMarks == 3

EmphasisPieces ==
    {<<"*", "*", "a", "*", "*">>, <<"*", "*", "b", "*", "*">>,
     <<"*", "a", "*">>, <<"~", "~", "a", "~", "~">>,
     <<"[", "a", "]", "(", "u", ")">>, <<"[", "b", "]", "(", "u", ")">>}

CallEmphasis == FirstCall(LinesOf(EmphasisPieces, MaxMarks))

NextEmphasis == CallEmphasis \/ Steps

SpecEmphasis == InitUrl /\ [][NextEmphasis]_vars

\* List items: unordered and ordered markers, one indented, whose content
\* is plain or holds an asterisk or an italic span, in texts of at most
\* MaxItemLines lines
MaxItemLines == 2

ItemCorpus ==
    {<<"*", " ", "a", " ", "*", " ", "b">>, <<"-", " ", "a">>,
     <<"1", ".", " ", "*", "a", "*">>,
     <<" ", " ", " ", " ", "*", " ", "a", "*", "b">>, <<"a">>}

CallItems == FirstCall(TextsOf(ItemCorpus, MaxItemLines))

NextItem == CallItems \/ Steps

SpecItem == Init /\ [][NextItem]_vars

\* The fence flag: a bare fence delimiter, one with a language label between
\* spaces, an indented one (not a delimiter), a plain line and a blank
\* line, in texts of at most MaxFlagLines lines
MaxFlagLines == 3

FlagCorpus ==
    {<<Bq, Bq, Bq>>, <<Bq, Bq, Bq, " ", "p", "y", " ">>,
     <<" ", Bq, Bq, Bq>>, <<"a">>, <<>>}

CallFlags == FirstCall(TextsOf(FlagCorpus, MaxFlagLines))

NextFlag == CallFlags \/ Steps

SpecFlag == Init /\ [][NextFlag]_vars

\* Termination: here the loop of _link takes one step per substitution, so
\* that a loop that never ends is a behaviour, and the list handler takes
\* the turns of its loop one after the other.  A line that keeps growing
\* is followed up to MaxLineLen characters (no line of a loop that ends
\* comes near it).  The instance has no base URL or one that holds a link;
\* the texts have at most MaxTermLines lines among a relative link, an
\* external link and a plain line.
MaxLineLen == 60

MaxTermLines == 2

\* One turn of the while loop of _link (lines 308-316)
LinkSubstitute ==
    /\ pc = "link"
    /\ Len(line) <= MaxLineLen
    /\ \E m \in {re_link(line)} :
          /\ m.ok
          /\ \E anchor \in {<<"<", "a", " ", "h", "r", "e", "f", "=", "\"">>
                             \o Resolve(m.g2, base_url) \o <<"\"", ">">> \o m.g1
                             \o <<"<", "/", "a", ">">>} :
                line' = Replace(line, m.g0, anchor)
    /\ UNCHANGED <<base_url, html, metadata, parse_state, arg, text, split,
                   idx, pc>>

\* The loop of _link finds no match and _link returns (lines 308, 318)
LinkEnd ==
    /\ pc = "link"
    /\ ~re_link(line).ok
    /\ pc' = "insert_code"
    /\ UNCHANGED <<base_url, html, metadata, parse_state, arg, text, split,
                   idx, line>>

\* line = self._list(line) (line 106), the three turns of the loop of _list
\* (lines 138-156) one after the other
ListStepByTurns ==
    /\ pc = "list"
    /\ \E st1 \in {ListTurn([line |-> line, lines |-> lines, list_type |-> list_type],
                              re_list_ul_2(line), sUl, line_empty)} :
       \E st2 \in {ListTurn(st1, re_list_ul_1(st1.line), sUl, line_empty)} :
       \E st3 \in {ListTurn(st2, re_list_ol(st2.line), sOl, line_empty)} :
          /\ line' = st3.line
          /\ lines' = st3.lines
          /\ list_type' = st3.list_type
    /\ pc' = "paragraph"
    /\ UNCHANGED <<base_url, html, metadata, extracted, line_empty, in_fence,
                   in_paragraph, in_blockquote, arg, text, split, idx>>

TermCorpus ==
    {<<"[", "x", "]", "(", "y", ")">>,
     <<"[", "x", "]", "(", "h", "t", "t", "p", ":", "/", "/", "y", ")">>,
     <<"a">>}

CallTerm == FirstCall(TextsOf(TermCorpus, MaxTermLines))

InitTerm == InitWith({<<>>, <<"[", "a", "]", "(", "b", ")">>})

\* The steps of a call, the loop of _link turn by turn
StepsTerm ==
    \/ Reset
    \/ MakeTidyStep
    \/ MetadataStep
    \/ ParseStep
    \/ ForLine
    \/ ParseReturn
    \/ FenceStep
    \/ HeadingStep
    \/ NoticesStep
    \/ MediaStep
    \/ IsMoreStep
    \/ ExtractCodeStep
    \/ BoldStep
    \/ ItalicStep
    \/ DeletedStep
    \/ LinkSubstitute
    \/ LinkEnd
    \/ InsertCodeStep
    \/ BlockquoteStep
    \/ ListStepByTurns
    \/ ParagraphStep
    \/ AppendStep

NextTerm == CallTerm \/ StepsTerm

\* A call that has begun keeps running: its next statement is executed
SpecTerm == InitTerm /\ [][NextTerm]_vars /\ WF_vars(StepsTerm)

(***************************************************************************)
(* The claims.                                                             *)
(***************************************************************************)

\* How many lines of the buffer are the tag
Count(lns, tag) == Cardinality({i \in 1..Len(lns) : lns[i] = tag})

\* C1: when convert has returned, the buffer holds as many </blockquote>
\* lines as <blockquote> lines, as many </p> lines as <p> lines, and as many
\* list close tags as list open tags.  (No line of BlockCorpus renders as
\* one of these tags, so every such line of the buffer is a synthetic one.)
C1_StructuralBalance ==
    pc = "returned" =>
        /\ Count(lines, sBlockquoteOpen) = Count(lines, sBlockquoteClose)
        /\ Count(lines, sPOpen) = Count(lines, sPClose)
        /\ Count(lines, OpenTag(sUl)) + Count(lines, OpenTag(sOl))
           = Count(lines, CloseTag(sUl)) + Count(lines, CloseTag(sOl))

\* C2: when convert has returned, every multi-line block is closed: the
\* list stack is empty and the blockquote and paragraph flags are false.
C2_ForceClosedAtEnd ==
    pc = "returned" =>
        /\ list_type = <<>>
        /\ ~in_blockquote
        /\ ~in_paragraph

\* The close tags of a list stack, innermost first
ClosesInnermostFirst(types) ==
    [i \in 1..Len(types) |-> CloseTag(types[Len(types) + 1 - i])]

\* The loop has just finished a blank line
BlankLineDone == pc = "loop" /\ idx >= 1 /\ split[idx] = <<>>

\* C5, as claimed: after any blank line is processed, whatever the state,
\* the list stack is empty.
C5_BlankClosesListsInAnyState == BlankLineDone => list_type = <<>>

\* C5, amended: after a blank line is processed outside a fence the list
\* stack is empty, and the list handler has appended one close tag per
\* level that was open, innermost first.
C5_BlankClosesListsOutsideFence ==
    /\ [](BlankLineDone /\ ~in_fence => list_type = <<>>)
    /\ [][pc = "list" /\ line_empty =>
             /\ list_type' = <<>>
             /\ lines' = lines \o ClosesInnermostFirst(list_type)]_vars

\* C5's case: a blank line outside a fence has closed two open levels
C5_Witness ==
    /\ BlankLineDone
    /\ ~in_fence
    /\ Len(lines) >= 3
    /\ lines[Len(lines) - 2] = CloseTag(sOl)
    /\ lines[Len(lines) - 1] = CloseTag(sUl)

\* The line the loop is working on, as it was in the text
RawLine == split[idx]

\* The call is working on a line that arrived inside a fence and is not a
\* fence delimiter: before _fence, or after it and before the append
InsideFenceLine ==
    /\ pc \in {"fence", "append"}
    /\ in_fence
    /\ Take(RawLine, 3) # <<Bq, Bq, Bq>>

\* C3: a line processed inside a fence that does not start with the fence
\* delimiter appends exactly one line, the input line with < and > escaped,
\* and leaves the list stack, the blockquote and paragraph flags, the
\* placeholder table and the fence state as they were.
C3_FenceSuppression ==
    [][InsideFenceLine =>
          /\ UNCHANGED <<list_type, in_blockquote, in_paragraph, extracted, in_fence>>
          /\ pc = "fence" =>
                /\ pc' = "append"
                /\ line' = EscapeHtml(RawLine)
                /\ lines' = lines
          /\ pc = "append" =>
                /\ pc' = "loop"
                /\ lines' = Append(lines, EscapeHtml(RawLine))]_vars

\* C3's case: inside a fence opened while a blockquote was open, the quoted
\* line with HTML metacharacters has been appended escaped
C3_Witness ==
    /\ pc = "loop"
    /\ idx >= 1
    /\ in_fence
    /\ RawLine = <<">", " ", "<", "q", ">">>
    /\ lines[Len(lines)] = <<"&", "g", "t", ";", " ", "&", "l", "t", ";", "q",
                             "&", "g", "t", ";">>
    /\ in_blockquote

\* The indentation of a line and the list depth it asks for
LeadingSpaces(ln) == RunFrom(ln, {" "}, 1)

AskedDepth(ln) == LeadingSpaces(ln) \div 4 + 1

\* Whether the list handler sees a marker in the line, and of which type
IsMarkerLine(ln) == re_list_ol(ln).ok \/ re_list_ul_1(ln).ok \/ re_list_ul_2(ln).ok

MarkerType(ln) == IF re_list_ol(ln).ok THEN sOl ELSE sUl

\* The <li> element of a marker line: what follows the marker and its space
MarkerItem(ln) ==
    LET body == Drop(ln, LeadingSpaces(ln))
        mark == IF body[1] \in {"*", "-"} THEN 1 ELSE RunFrom(body, Digit, 1) + 1
    IN  <<"<", "l", "i", ">">> \o Drop(body, mark + 1) \o <<"<", "/", "l", "i", ">">>

\* C4: on a marker line (a line in which the list handler finds a marker;
\* the lines of ListCorpus reach it as they were written) with asked depth d
\* and stack depth k the list handler pushes one tag of the marker's type
\* and appends its open tag when d > k, pops k - d tags and appends their close tags, last opened first,
\* when d < k, and leaves the stack alone when d = k; the stack changes on
\* no other non-blank line; and the line's <li> element is the last line
\* appended for it.
C4_ListDepthTransitions ==
    /\ [][pc = "list" /\ IsMarkerLine(line) =>
             LET d == AskedDepth(line)
                 k == Len(list_type)
             IN  /\ d > k => /\ list_type' = Append(list_type, MarkerType(line))
                             /\ lines' = Append(lines, OpenTag(MarkerType(line)))
                 /\ d < k => /\ list_type' = SubSeq(list_type, 1, d)
                             /\ lines' = lines \o [i \in 1..(k - d) |->
                                                     CloseTag(list_type[k + 1 - i])]
                 /\ d = k => UNCHANGED <<list_type, lines>>
                 /\ line' = MarkerItem(line)]_vars
    /\ [][list_type' # list_type =>
             \/ pc = "reset"
             \/ pc = "list" /\ (IsMarkerLine(line) \/ line_empty)]_vars
    /\ [](pc = "loop" /\ idx >= 1 /\ ~in_fence /\ IsMarkerLine(RawLine) =>
             lines[Len(lines)] = MarkerItem(RawLine))

\* C4's case: a marker line at depth 1 has closed the two inner levels of a
\* stack of three, the ordered one last
C4_Witness ==
    /\ pc = "loop"
    /\ idx = 4
    /\ RawLine = <<"*", " ", "a">>
    /\ list_type = <<sUl>>
    /\ Len(lines) >= 3
    /\ lines[Len(lines) - 2] = CloseTag(sUl)
    /\ lines[Len(lines) - 1] = CloseTag(sOl)
    /\ lines[Len(lines)] = MarkerItem(RawLine)

\* What every generated placeholder token holds, whole or escaped
PlaceholderMark == <<"E", "X", "T", "R", "A", "C", "T", "E", "D", "-">>

\* The loop has just appended a line of the text
LineDone == pc = "loop" /\ idx >= 1

\* C6: when a line is finalized and appended, the placeholder table is empty
\* and no line of the buffer holds a placeholder token or a fragment of one.
\* (No piece of InlinePieces holds the mark, so a mark in the buffer is a
\* generated one.)
C6_PlaceholdersDrained ==
    LineDone =>
        /\ extracted = <<>>
        /\ \A i \in 1..Len(lines) : ~Contains(lines[i], PlaceholderMark)

\* The code span the extraction meets first in a line: the leftmost
\* double-backquote span, or the leftmost single-backquote span of a line
\* without a double-backquote span
FirstSpan(ln) == IF re_code_2(ln).ok THEN re_code_2(ln) ELSE re_code_1(ln)

\* The line was processed outside a fence and is not a fence delimiter
OutsideFenceLine ==
    /\ LineDone
    /\ ~in_fence
    /\ Take(RawLine, 3) # <<Bq, Bq, Bq>>

\* C7: a line processed outside a fence renders the literal content of its
\* code span inside <code>...</code> with only < and > escaped, whatever
\* markup the content holds.
C7_CodeSpanProtection ==
    OutsideFenceLine /\ FirstSpan(RawLine).ok =>
        Contains(lines[Len(lines)], ExValue(FirstSpan(RawLine).g1))

\* The text of a call that ends inside an unterminated fence with a
\* blockquote and a list open, and the HTML of that call
UnterminatedText == <<">", " ", "*", " ", "a", "\n", Bq, Bq, Bq>>

\* C8: every call starts from the reset parse state (empty buffer, empty
\* placeholder table, fence, blockquote and paragraph flags false, empty
\* list stack), and the HTML of a call that returns is the HTML a new
\* instance with the same base_url produces for the text, whatever the
\* earlier calls on the instance were.
C8_RepeatableConversion ==
    /\ [][pc = "reset" =>
             /\ lines' = <<>>
             /\ extracted' = <<>>
             /\ ~in_fence'
             /\ ~in_blockquote'
             /\ ~in_paragraph'
             /\ list_type' = <<>>]_vars
    /\ [](pc = "returned" =>
             /\ ~MetadataRaises(arg)
             /\ ~FreshParse(arg, base_url).raised
             /\ html = FreshHtml(arg, base_url))

\* C8's case: the call before ended inside a fence (its HTML is still in
\* html), and this call, on another text, has built the buffer a new
\* instance builds and is about to return it
C8_Witness ==
    /\ pc = "loop"
    /\ idx = Len(split)
    /\ idx >= 1
    /\ html = FreshHtml(UnterminatedText, base_url)
    /\ arg = <<">", " ", "*", " ", "a">>
    /\ Join(lines, <<"\n">>) = FreshHtml(arg, base_url)

\* The URL the rule of C9 emits for u on this instance
Emitted(u) ==
    IF \/ Take(u, 7) = <<"h", "t", "t", "p", ":", "/", "/">>
       \/ Take(u, 8) = <<"h", "t", "t", "p", "s", ":", "/", "/">>
    THEN u
    ELSE IF base_url = <<>> THEN u
    ELSE base_url \o <<"/">> \o u

AnchorOf(u) ==
    <<"<", "a", " ", "h", "r", "e", "f", "=", "\"">> \o Emitted(u)
    \o <<"\"", ">", "a", "<", "/", "a", ">">>

Quoted(attr, u) == attr \o <<"=", "\"">> \o u \o <<"\"">>

\* C9: the href of every link, the source of an image and of a video, and
\* the poster of a video are the URL as written when it begins with http://
\* or https:// or when base_url is empty, and base_url, a slash and the URL
\* otherwise.
C9_BaseUrlResolution ==
    LineDone /\ idx = 1 =>
        LET out == lines[Len(lines)]
        IN  /\ \A k \in 1..MaxLinks : \A us \in [1..k -> Urls] :
                   RawLine = LinksOf(us) =>
                       out = Join([i \in 1..k |-> AnchorOf(us[i])], <<>>)
            /\ \A u \in Urls :
                   /\ RawLine = ImageOf(u) =>
                          Contains(out, <<"<", "i", "m", "g", " ">>
                                        \o Quoted(<<"s", "r", "c">>, Emitted(u \o <<".", "p", "n", "g">>)))
                   /\ RawLine = VideoOf(u) =>
                          Contains(out, <<"<", "s", "o", "u", "r", "c", "e", " ">>
                                        \o Quoted(<<"s", "r", "c">>, Emitted(u \o <<".", "m", "p", "4">>)))
                   /\ RawLine = PosterOf(u) =>
                          /\ Contains(out, <<" ">> \o Quoted(<<"p", "o", "s", "t", "e", "r">>, Emitted(u)))
                          /\ Contains(out, <<"<", "s", "o", "u", "r", "c", "e", " ">>
                                           \o Quoted(<<"s", "r", "c">>, Emitted(<<"v", ".", "m", "p", "4">>)))

\* C9's case: on an instance with base URL b, a line with an external and a
\* relative link has been appended, the first href as written and the
\* second behind the base URL
C9_Witness ==
    /\ LineDone
    /\ base_url = <<"b">>
    /\ RawLine = LinkOf(<<"h", "t", "t", "p", ":", "/", "/", "x">>) \o LinkOf(<<"u">>)
    /\ lines[Len(lines)] = <<"<", "a", " ", "h", "r", "e", "f", "=", "\"", "h", "t", "t", "p", ":", "/", "/", "x", "\"", ">", "a", "<", "/", "a", ">">>
                           \o <<"<", "a", " ", "h", "r", "e", "f", "=", "\"", "b", "/", "u", "\"", ">", "a", "<", "/", "a", ">">>

\* The run of hashes a line starts with
HashRun(ln) == RunFrom(ln, {"#"}, 1)

\* The line starts with hashes, then whitespace, then content
HeadingShaped(ln) ==
    /\ HashRun(ln) >= 1
    /\ Len(ln) >= HashRun(ln) + 2
    /\ ln[HashRun(ln) + 1] \in WhiteSpace

\* <hN> and </hN>
HOpen(level) == <<"<", "h">> \o FormatInt(level) \o <<">">>

HClose(level) == <<"<", "/", "h">> \o FormatInt(level) \o <<">">>

\* C10: a line outside a fence that starts with n hashes, whitespace and
\* content is appended as a heading of level min(n, 6), the same level in
\* both tags; and no line of the buffer opens a heading above level 6.
C10_HeadingDepthClamp ==
    /\ OutsideFenceLine /\ HeadingShaped(RawLine) =>
           LET n     == HashRun(RawLine)
               level == IF n <= 6 THEN n ELSE 6
           IN  lines[Len(lines)]
               = HOpen(level) \o Drop(RawLine, n + 1) \o HClose(level)
    /\ \A i \in 1..Len(lines) : \A level \in 7..(MaxHashes + 1) :
           ~StartsWith(lines[i], <<"<", "h">> \o FormatInt(level))

\* C10's case: a line of seven hashes has been appended as a level 6 heading
C10_Witness ==
    /\ OutsideFenceLine
    /\ RawLine = HeadingOf(7)
    /\ lines[Len(lines)] = <<"<", "h", "6", ">", "T", "<", "/", "h", "6", ">">>

\* The run of exclamation marks a line starts with
BangRun(ln) == RunFrom(ln, {"!"}, 1)

\* The line starts with exclamation marks, then whitespace, then content
NoticeShaped(ln) ==
    /\ BangRun(ln) >= 1
    /\ Len(ln) >= BangRun(ln) + 2
    /\ ln[BangRun(ln) + 1] \in WhiteSpace

\* The four severity classes, by run length
SeverityOf(n) ==
    CASE n = 1 -> <<"y", "e", "l", "l", "o", "w">>
      [] n = 2 -> <<"r", "e", "d">>
      [] n = 3 -> <<"b", "l", "u", "e">>
      [] n = 4 -> <<"g", "r", "e", "e", "n">>

\* The notice container of a severity class around a message
NoticeDiv(class, message) ==
    <<"<", "d", "i", "v", " ", "c", "l", "a", "s", "s", "=", "\"",
      "n", "o", "t", "i", "c", "e", "s", " ">> \o class
    \o <<"\"", ">">> \o message \o <<"<", "/", "d", "i", "v", ">">>

\* C11: the notice detector rewrites a line that starts with n exclamation
\* marks, whitespace and content to a notice container of the severity
\* class of n when n is 1, 2, 3 or 4, and returns it unchanged when n is
\* outside 1..4.
C11_NoticeSeverityMapping ==
    [][pc = "notices" /\ NoticeShaped(line) =>
          LET n == BangRun(line)
          IN  IF n \in 1..4
              THEN line' = NoticeDiv(SeverityOf(n), Drop(line, n + 1))
              ELSE line' = line]_vars

\* C12: the line each of the bold, italic, delete and link handlers returns
\* holds no further match of the handler's pattern, and the handler applied
\* to it returns it unchanged.
C12_InlineIdempotence ==
    /\ [][pc = "bold" => ~re_bold(line').ok /\ Bold(line') = line']_vars
    /\ [][pc = "italic" => ~re_italic(line').ok /\ Italic(line') = line']_vars
    /\ [][pc = "deleted" => ~re_deleted(line').ok /\ Deleted(line') = line']_vars
    /\ [][pc = "link" =>
             ~re_link(line').ok /\ Link(line', base_url) = line']_vars

\* C12's case: the bold handler has substituted two different spans of one
\* line in one invocation
C12_Witness ==
    /\ pc = "italic"
    /\ RawLine = <<"*", "*", "a", "*", "*", "*", "*", "b", "*", "*">>
    /\ line = <<"<", "e", "m", ">", "a", "<", "/", "e", "m", ">",
                "<", "e", "m", ">", "b", "<", "/", "e", "m", ">">>

\* s ends with p
EndsWith(s, p) == Len(s) >= Len(p) /\ SubSeq(s, Len(s) - Len(p) + 1, Len(s)) = p

\* C13: a non-blank line processed outside a fence that is made of optional
\* leading spaces, a list marker and content is appended as a single <li>
\* element, whatever the content holds.
C13_ListItemDetection ==
    OutsideFenceLine /\ IsMarkerLine(RawLine) =>
        LET out == lines[Len(lines)]
        IN  /\ StartsWith(out, <<"<", "l", "i", ">">>)
            /\ EndsWith(out, <<"<", "/", "l", "i", ">">>)
            /\ Find(out, <<"<", "l", "i", ">">>, 2) = 0

\* The line's first three characters are the fence delimiter
IsDelimiterLine(ln) == Len(ln) >= 3 /\ SubSeq(ln, 1, 3) = <<Bq, Bq, Bq>>

\* How many of the first n lines are delimiter lines
DelimitersIn(lns, n) == Cardinality({i \in 1..n : IsDelimiterLine(lns[i])})

\* The opening code-block tag with a language label, and the closing tag
sPreOpen(label) ==
    <<"<", "p", "r", "e", ">", "<", "c", "o", "d", "e", " ", "c", "l", "a",
      "s", "s", "=", "\"", "l", "a", "n", "g", "u", "a", "g", "e", "-">>
    \o label \o <<"\"", ">">>

sPreClose == <<"<", "/", "c", "o", "d", "e", ">", "<", "/", "p", "r", "e", ">">>

\* C14: the fence flag is outside when the parse starts and changes only on
\* a delimiter line: from outside to inside, the line becoming the opening
\* tag with the trimmed label, and from inside to outside, the line becoming
\* the closing tag; so after any prefix of the lines the flag is inside
\* exactly when the prefix holds an odd number of delimiter lines; and a
\* text with an unterminated fence is converted without an error, the flag
\* still inside when convert returns.
C14_FenceStateMachine ==
    /\ [](pc = "loop" /\ idx = 0 => ~in_fence)
    /\ [][in_fence' # in_fence => pc = "fence" /\ IsDelimiterLine(RawLine)]_vars
    /\ [][pc = "fence" /\ IsDelimiterLine(RawLine) =>
             IF in_fence
             THEN ~in_fence' /\ line' = sPreClose
             ELSE in_fence' /\ line' = sPreOpen(Strip(Drop(RawLine, 3)))]_vars
    /\ [](pc = "loop" => (in_fence <=> DelimitersIn(split, idx) % 2 = 1))
    /\ [](pc # "raised")
    /\ [](pc = "returned" =>
             LET all == Split(MakeTidy(arg), <<"\n">>)
             IN  in_fence <=> DelimitersIn(all, Len(all)) % 2 = 1)

\* C14's case: convert has returned from a text whose fence, opened with a
\* language label, is never closed, the flag still inside
C14_Witness ==
    /\ pc = "returned"
    /\ in_fence
    /\ arg = <<Bq, Bq, Bq, " ", "p", "y", " ", "\n", "a">>
    /\ lines[1] = sPreOpen(<<"p", "y">>)

\* The line is rendered as a block-level construct: a heading, a list item,
\* a media figure, a blockquote tag, a notice container or a code-block tag
IsBlockLevel(ln) ==
    \/ \E level \in 1..6 : StartsWith(ln, HOpen(level))
    \/ \E t \in {<<"<", "l", "i", ">">>,
                 <<"<", "f", "i", "g", "u", "r", "e">>,
                 <<"<", "b", "l", "o", "c", "k", "q", "u", "o", "t", "e">>,
                 <<"<", "d", "i", "v", " ", "c", "l", "a", "s", "s", "=", "\"",
                   "n", "o", "t", "i", "c", "e", "s">>,
                 <<"<", "p", "r", "e", ">", "<", "c", "o", "d", "e">>,
                 sPreClose} : StartsWith(ln, t)

\* C15: outside a fence the paragraph handler appends <p> ahead of the
\* current line exactly when the last line of the buffer is empty (or the
\* buffer is empty), the current line is not empty and its rendered form is
\* not a block-level construct.
C15_ParagraphOpeningRule ==
    [][pc = "paragraph" =>
          ((Len(lines') > Len(lines) /\ lines'[Len(lines) + 1] = sPOpen)
           <=> (LastLineEmpty(lines) /\ ~line_empty /\ ~IsBlockLevel(line)))]_vars

\* The line the blockquote handler receives is a quoted one
QuotedLine == ~line_empty /\ Take(line, 2) = <<">", " ">>

\* C16: <blockquote> is appended only by the blockquote handler on a
\* non-empty line prefixed with "> ", outside a fence, while the flag is
\* false; the prefix is stripped from every such line; </blockquote> is
\* appended only on a blank line while the flag is true; and in every state
\* the <blockquote> lines of the buffer outnumber the </blockquote> lines by
\* one if the flag is true and by none if it is false.  (No line of
\* BlockCorpus is itself one of the two tags.)
C16_BlockquoteOpenOnce ==
    /\ [][Count(lines', sBlockquoteOpen) > Count(lines, sBlockquoteOpen) =>
             /\ pc = "blockquote" /\ ~in_fence
             /\ QuotedLine
             /\ ~in_blockquote /\ in_blockquote'
             /\ lines' = Append(lines, sBlockquoteOpen)]_vars
    /\ [][pc = "blockquote" /\ QuotedLine =>
             line' = Drop(line, 2) /\ in_blockquote']_vars
    /\ [][Count(lines', sBlockquoteClose) > Count(lines, sBlockquoteClose) =>
             /\ pc = "blockquote"
             /\ line_empty
             /\ in_blockquote /\ ~in_blockquote'
             /\ lines' = Append(lines, sBlockquoteClose)]_vars
    /\ [](Count(lines, sBlockquoteOpen) - Count(lines, sBlockquoteClose)
          = IF in_blockquote THEN 1 ELSE 0)

\* C16's case: two quoted lines in a row have opened one blockquote, and the
\* blank line after them has closed it
C16_Witness ==
    /\ pc = "loop"
    /\ idx = 3
    /\ ~in_blockquote
    /\ lines = <<sBlockquoteOpen, <<"q">>, <<"q">>, sBlockquoteClose, <<>>>>

\* C17: every call of convert ends: it returns (or raises).
C17_Termination == (pc = "reset") ~> (pc \in {"returned", "raised"})

\* The types of the list open tags among the first n lines of a buffer that
\* no later close tag among them has closed, outermost first: an open tag
\* pushes its type and a close tag takes away the last one
RECURSIVE OpenListsFrom(_, _, _, _)
OpenListsFrom(lns, i, n, open) ==
    IF i > n THEN open
    ELSE LET l == lns[i]
         IN  OpenListsFrom(lns, i + 1, n,
                 IF l = OpenTag(sUl) THEN Append(open, sUl)
                 ELSE IF l = OpenTag(sOl) THEN Append(open, sOl)
                 ELSE IF l \in {CloseTag(sUl), CloseTag(sOl)} /\ open # <<>>
                      THEN SubSeq(open, 1, Len(open) - 1)
                 ELSE open)

OpenLists(lns, n) == OpenListsFrom(lns, 1, n, <<>>)

\* Every list close tag of the buffer closes the list opened last among
\* those still open before it, and has its type
ListClosesMatch(lns) ==
    \A i \in 1..Len(lns) : \A t \in {sUl, sOl} :
        lns[i] = CloseTag(t) =>
            LET open == OpenLists(lns, i - 1)
            IN  open # <<>> /\ open[Len(open)] = t

\* The list handler is about to treat a marker whose depth is open already
\* and was opened by a marker of the other type
OtherTypeAtOpenDepth ==
    /\ pc = "list"
    /\ IsMarkerLine(line)
    /\ AskedDepth(line) <= Len(list_type)
    /\ list_type[AskedDepth(line)] # MarkerType(line)

\* C18 as stated: in every state the list stack is, in order, the types of
\* the list open tags of the buffer that are not closed yet; every list
\* close tag in the buffer closes the list opened last among the open ones
\* and has its type; and a marker of the other type at a depth that is open
\* already appends no list tag and leaves the stack as it is.
C18_OtherTypeMarkerTouchesNoList ==
    /\ [](list_type = OpenLists(lines, Len(lines)))
    /\ [](ListClosesMatch(lines))
    /\ [][OtherTypeAtOpenDepth => UNCHANGED <<list_type, lines>>]_vars

\* C18: in every state the list stack is, in order, the types of the list
\* open tags of the buffer that are not closed yet; every list close tag in
\* the buffer closes the list opened last among the open ones and has its
\* type; and a marker of the other type at a depth d that is open already
\* opens no list and closes the lists deeper than d and no other, so that
\* the lists of depth d and less stay open with the types they were opened
\* with.
C18_TypedNestedLists ==
    /\ [](list_type = OpenLists(lines, Len(lines)))
    /\ [](ListClosesMatch(lines))
    /\ [][OtherTypeAtOpenDepth =>
             LET d == AskedDepth(line)
                 k == Len(list_type)
             IN  /\ list_type' = SubSeq(list_type, 1, d)
                 /\ lines' = lines \o [i \in 1..(k - d) |->
                                         CloseTag(list_type[k + 1 - i])]]_vars

\* C18's case: an ordered marker at depth 2, which an unordered marker
\* opened, has closed the unordered list of depth 3 and left the two outer
\* unordered lists open
C18_Witness ==
    /\ pc = "loop"
    /\ idx = 4
    /\ RawLine = <<" ", " ", " ", " ", "1", ".", " ", "b">>
    /\ split[1] = <<"*", " ", "a">>
    /\ list_type = <<sUl, sUl>>
    /\ Len(lines) >= 2
    /\ lines[Len(lines) - 1] = CloseTag(sUl)
    /\ lines[Len(lines)] = MarkerItem(RawLine)
    /\ Count(lines, OpenTag(sOl)) = 0

\* A cut marker: "===" or "<!-- more --!>", in any case of the letters
IsCutMarker(ln) ==
    Lower(ln) \in {<<"=", "=", "=">>,
                   <<"<", "!", "-", "-", " ", "m", "o", "r", "e", " ",
                     "-", "-", "!", ">">>}

\* The loop of _parse has a cut marker in hand outside a fence: any step of
\* the loop body, from the fence handler to the append of the line
CutMarkerInHand ==
    /\ pc \in {"fence", "heading", "notices", "media", "is_more",
               "extract_code", "bold", "italic", "deleted", "link",
               "insert_code", "blockquote", "list", "paragraph", "append"}
    /\ ~in_fence
    /\ IsCutMarker(RawLine)

\* C19: while a cut marker met outside a fence is processed, no handler
\* appends a line to the buffer and the list stack, the blockquote flag and
\* the paragraph flag stay as they are; the only line the buffer gains is
\* the empty line appended for the marker itself.
C19_CutMarkerFrame ==
    [][CutMarkerInHand =>
          /\ UNCHANGED <<list_type, in_blockquote, in_paragraph>>
          /\ lines' = IF pc = "append" THEN Append(lines, <<>>) ELSE lines]_vars

====
